---- MODULE Spec2Model ----
(***************************************************************************)
(* A model of the MMA +EV tool's staking core:                             *)
(*   backend/kelly_calculator.py  KellyCalculator, BetTracker (the ledger) *)
(*   backend/ev_calculator.py     KellyCalculator (the duplicate)          *)
(* Python floats are modelled as exact rationals <<n, d>> (d > 0, lowest   *)
(* terms); timestamps (datetime.now().isoformat()) as one-element tuples   *)
(* <<t>> of a logical clock; SQL NULL as the empty tuple.                  *)
(***************************************************************************)
EXTENDS Integers, Sequences, FiniteSets, TLC

VARIABLES placed_bets, seq, clock, pc, local, last, kcall, kresult, bankroll,
          ocall, oresult, fights, evlast

ledgerVars == <<placed_bets, seq, clock, pc, local, last>>
kellyVars == <<kcall, kresult, bankroll>>
evVars == <<ocall, oresult, fights, evlast>>
vars == <<placed_bets, seq, clock, pc, local, last, kcall, kresult, bankroll,
          ocall, oresult, fights, evlast>>

(***************************************************************************)
(* Bounds of the model.                                                    *)
(***************************************************************************)
MaxBets == 2
MaxClock == 1
MaxSeqBets == 3
ProbDen == 2
MaxOdds == 60

(***************************************************************************)
(* Exact rational arithmetic standing for Python's float arithmetic.       *)
(***************************************************************************)
Abs(x) == IF x < 0 THEN -x ELSE x

RECURSIVE GCD(_, _)
GCD(a, b) == IF b = 0 THEN a ELSE GCD(b, a % b)

Norm(n, d) ==
    LET s == IF d < 0 THEN -1 ELSE 1
        g == GCD(Abs(n), Abs(d))
    IN  <<(s * n) \div g, (s * d) \div g>>

R(n) == <<n, 1>>
RAdd(x, y) == Norm(x[1] * y[2] + y[1] * x[2], x[2] * y[2])
RSub(x, y) == Norm(x[1] * y[2] - y[1] * x[2], x[2] * y[2])
RMul(x, y) == Norm(x[1] * y[1], x[2] * y[2])
RDiv(x, y) == Norm(x[1] * y[2], x[2] * y[1])
RLt(x, y) == x[1] * y[2] < y[1] * x[2]
RLe(x, y) == x[1] * y[2] <= y[1] * x[2]
RGe(x, y) == RLe(y, x)
RGt(x, y) == RLt(y, x)

RECURSIVE Pow10(_)
Pow10(k) == IF k = 0 THEN 1 ELSE 10 * Pow10(k - 1)

\* Python's round(x, ndigits): to the nearest multiple of 10^-ndigits, a tie
\* going to the even one.
round(x, ndigits) ==
    LET s == Pow10(ndigits)
        y == RMul(x, R(s))
        fl == y[1] \div y[2]
        twice == 2 * (y[1] - fl * y[2])
        r == IF twice < y[2] THEN fl
             ELSE IF twice > y[2] THEN fl + 1
             ELSE IF fl % 2 = 0 THEN fl ELSE fl + 1
    IN  Norm(r, s)

Null == <<>>

(***************************************************************************)
(* The Bet Ledger: kelly_calculator.BetTracker over the table placed_bets. *)
(* placed_bets maps a row id to its row; seq is SQLite's AUTOINCREMENT     *)
(* counter for the table.  Each caller in Procs works on its own           *)
(* connection; settle_bet is a SELECT followed, in a later statement, by   *)
(* an UPDATE and a commit, and callers interleave between statements.      *)
(***************************************************************************)
Procs == {"c1", "c2"}

\* The arguments of add_bet: the sample of main(), the spec's settlement
\* examples, and a second stake on a quote with odds 0.
BetInputs ==
    { [fighter |-> "Jon Jones", opponent |-> "Tom Aspinall", book |-> "DraftKings",
       odds |-> -135, bet_amount |-> R(50), unit_size |-> R(5),
       ev_percentage |-> <<11, 5>>, confidence_score |-> <<681, 10>>,
       kelly_recommended |-> R(5), fight_date |-> "2024-11-16"],
      [fighter |-> "Tom Aspinall", opponent |-> "Jon Jones", book |-> "FanDuel",
       odds |-> 150, bet_amount |-> R(50), unit_size |-> R(5),
       ev_percentage |-> <<3, 2>>, confidence_score |-> R(60),
       kelly_recommended |-> R(5), fight_date |-> "2024-11-16"],
      [fighter |-> "Jon Jones", opponent |-> "Tom Aspinall", book |-> "Bet365",
       odds |-> -200, bet_amount |-> R(50), unit_size |-> R(5),
       ev_percentage |-> R(1), confidence_score |-> R(45),
       kelly_recommended |-> R(5), fight_date |-> "2024-11-16"],
      [fighter |-> "Jon Jones", opponent |-> "Tom Aspinall", book |-> "FanDuel",
       odds |-> 0, bet_amount |-> R(20), unit_size |-> R(2),
       ev_percentage |-> R(1), confidence_score |-> R(45),
       kelly_recommended |-> R(2), fight_date |-> "2024-11-16"] }

\* The ids a caller may pass to settle_bet: every id the table can hold and
\* one it never holds.
BetIds == 1..(MaxBets + 1)

\* datetime.now().isoformat()
now == <<clock>>

NoCall == [op |-> "init_database", bet_id |-> 0, outcome |-> "return",
           printed |-> "", stats |-> Null, bets |-> Null]

Max(S) == CHOOSE x \in S : \A y \in S : y <= x

\* lastrowid handing out the largest id in use again.
lastrowid_reuse(table, s) == IF DOMAIN table = {} THEN 1 ELSE Max(DOMAIN table)

\* CREATE TABLE ... id INTEGER PRIMARY KEY AUTOINCREMENT: the next row id is
\* one more than the largest id the table has ever assigned.
lastrowid(table, s) == Max({s} \cup DOMAIN table) + 1

\* An INSERT into a table whose settled_date defaults to the current time.
InsertedRow_dated(id, a) ==
    [id |-> id, fighter |-> a.fighter, opponent |-> a.opponent, book |-> a.book,
     odds |-> a.odds, bet_amount |-> a.bet_amount, unit_size |-> a.unit_size,
     ev_percentage |-> a.ev_percentage, confidence_score |-> a.confidence_score,
     kelly_recommended |-> a.kelly_recommended, placed_date |-> now,
     fight_date |-> a.fight_date, status |-> "pending",
     result_amount |-> Null, settled_date |-> now]

\* INSERT INTO placed_bets (...) VALUES (..., 'pending'): result_amount and
\* settled_date take their default NULL.
InsertedRow(id, a) ==
    [id |-> id, fighter |-> a.fighter, opponent |-> a.opponent, book |-> a.book,
     odds |-> a.odds, bet_amount |-> a.bet_amount, unit_size |-> a.unit_size,
     ev_percentage |-> a.ev_percentage, confidence_score |-> a.confidence_score,
     kelly_recommended |-> a.kelly_recommended, placed_date |-> now,
     fight_date |-> a.fight_date, status |-> "pending",
     result_amount |-> Null, settled_date |-> Null]

add_bet(p, a) ==
    /\ pc[p] = "idle"
    /\ LET bet_id == lastrowid(placed_bets, seq)
       IN  /\ placed_bets' = (bet_id :> InsertedRow(bet_id, a)) @@ placed_bets
           /\ seq' = bet_id
           /\ last' = [op |-> "add_bet", bet_id |-> bet_id, outcome |-> "return",
                       printed |-> "Added bet", stats |-> Null, bets |-> Null]
    /\ UNCHANGED <<clock, pc, local, kellyVars, evVars>>

\* settle_bet up to the SELECT: an unknown id prints and returns None.
settle_bet_select(p, bet_id, won) ==
    /\ pc[p] = "idle"
    /\ IF bet_id \notin DOMAIN placed_bets
       THEN /\ last' = [op |-> "settle_bet", bet_id |-> bet_id, outcome |-> "return",
                        printed |-> "not found", stats |-> Null, bets |-> Null]
            /\ UNCHANGED <<pc, local>>
       ELSE /\ pc' = [pc EXCEPT ![p] = "selected"]
            /\ local' = [local EXCEPT ![p] =
                            [bet_id |-> bet_id, won |-> won, bet |-> placed_bets[bet_id]]]
            /\ UNCHANGED last
    /\ UNCHANGED <<placed_bets, seq, clock, kellyVars, evVars>>

\* settle_result forgetting to return the stake with the winnings.
settle_result_no_stake(bet, won) ==
    IF won
    THEN LET payout == IF bet.odds > 0
                       THEN RMul(bet.bet_amount, Norm(bet.odds, 100))
                       ELSE RMul(bet.bet_amount, Norm(100, Abs(bet.odds)))
         IN  [status |-> "won", result_amount |-> payout]
    ELSE [status |-> "lost", result_amount |-> R(0)]

\* The result computed from the row that was read.
settle_result(bet, won) ==
    IF won
    THEN LET payout == IF bet.odds > 0
                       THEN RMul(bet.bet_amount, Norm(bet.odds, 100))
                       ELSE RMul(bet.bet_amount, Norm(100, Abs(bet.odds)))
         IN  [status |-> "won", result_amount |-> RAdd(bet.bet_amount, payout)]
    ELSE [status |-> "lost", result_amount |-> R(0)]

\* settle_bet whose UPDATE has lost its WHERE clause.
settle_bet_update_every_row(p) ==
    /\ pc[p] = "selected"
    /\ LET l == local[p]
       IN  IF l.won /\ l.bet.odds = 0
           THEN /\ last' = [op |-> "settle_bet", bet_id |-> l.bet_id,
                            outcome |-> "ZeroDivisionError", printed |-> "",
                            stats |-> Null, bets |-> Null]
                /\ UNCHANGED placed_bets
           ELSE LET r == settle_result(l.bet, l.won)
                IN  /\ placed_bets' =
                          [i \in DOMAIN placed_bets |->
                              [placed_bets[i] EXCEPT !.status = r.status,
                                                     !.result_amount = r.result_amount,
                                                     !.settled_date = now]]
                    /\ last' = [op |-> "settle_bet", bet_id |-> l.bet_id,
                                outcome |-> "return",
                                printed |-> IF l.won THEN "Bet won" ELSE "Bet lost",
                                stats |-> Null, bets |-> Null]
    /\ pc' = [pc EXCEPT ![p] = "idle"]
    /\ local' = [local EXCEPT ![p] = Null]
    /\ UNCHANGED <<seq, clock, kellyVars, evVars>>

\* settle_bet from the row that was read to the commit.  A winning settle of
\* a row with odds 0 divides by zero and nothing is written.
settle_bet_update(p) ==
    /\ pc[p] = "selected"
    /\ LET l == local[p]
       IN  IF l.won /\ l.bet.odds = 0
           THEN /\ last' = [op |-> "settle_bet", bet_id |-> l.bet_id,
                            outcome |-> "ZeroDivisionError", printed |-> "",
                            stats |-> Null, bets |-> Null]
                /\ UNCHANGED placed_bets
           ELSE LET r == settle_result(l.bet, l.won)
                IN  /\ placed_bets' =
                          [placed_bets EXCEPT ![l.bet_id] =
                              [@ EXCEPT !.status = r.status,
                                        !.result_amount = r.result_amount,
                                        !.settled_date = now]]
                    /\ last' = [op |-> "settle_bet", bet_id |-> l.bet_id,
                                outcome |-> "return",
                                printed |-> IF l.won THEN "Bet won" ELSE "Bet lost",
                                stats |-> Null, bets |-> Null]
    /\ pc' = [pc EXCEPT ![p] = "idle"]
    /\ local' = [local EXCEPT ![p] = Null]
    /\ UNCHANGED <<seq, clock, kellyVars, evVars>>

\* Time passes between two readings of datetime.now().
Tick ==
    /\ clock < MaxClock
    /\ clock' = clock + 1
    /\ UNCHANGED <<placed_bets, seq, pc, local, last, kellyVars, evVars>>


\* A COUNT(*) that has lost its WHERE clause.
CountStatus_every_row(table, st) == Cardinality(DOMAIN table)

\* SELECT COUNT(*) FROM placed_bets WHERE status = ...
CountStatus(table, st) == Cardinality({i \in DOMAIN table : table[i].status = st})

\* SELECT SUM(<field>) FROM placed_bets [WHERE status IN ("won", "lost")],
\* with Python's "or 0" for the NULL of an empty selection.  A NULL
\* result_amount is skipped by SUM.
RECURSIVE SumField(_, _, _)
SumField(table, ids, field) ==
    IF ids = {} THEN R(0)
    ELSE LET i == CHOOSE x \in ids : TRUE
             v == table[i][field]
         IN  RAdd(IF v = Null THEN R(0) ELSE v, SumField(table, ids \ {i}, field))

\* Settled without its WHERE clause.
Settled_all(table) == DOMAIN table

Settled(table) == {i \in DOMAIN table : table[i].status \in {"won", "lost"}}

\* win_rate left as a fraction.
win_rate_fraction(won_bets, lost_bets) ==
    IF won_bets + lost_bets > 0
    THEN Norm(won_bets, won_bets + lost_bets)
    ELSE R(0)

\* get_betting_stats, "Win rate" and "ROI", before rounding.
win_rate(won_bets, lost_bets) ==
    IF won_bets + lost_bets > 0
    THEN RMul(Norm(won_bets, won_bets + lost_bets), R(100))
    ELSE R(0)

roi(net_profit, total_risked) ==
    IF RGt(total_risked, R(0))
    THEN RMul(RDiv(net_profit, total_risked), R(100))
    ELSE R(0)

\* The dictionary get_betting_stats returns.
betting_stats(table) ==
    LET total_bets == Cardinality(DOMAIN table)
        won_bets == CountStatus(table, "won")
        lost_bets == CountStatus(table, "lost")
        pending_bets == CountStatus(table, "pending")
        total_wagered == SumField(table, DOMAIN table, "bet_amount")
        total_returned == SumField(table, Settled(table), "result_amount")
        total_risked == SumField(table, Settled(table), "bet_amount")
        net_profit == RSub(total_returned, total_risked)
    IN  [total_bets |-> total_bets,
         won_bets |-> won_bets,
         lost_bets |-> lost_bets,
         pending_bets |-> pending_bets,
         win_rate |-> round(win_rate(won_bets, lost_bets), 1),
         total_wagered |-> round(total_wagered, 2),
         net_profit |-> round(net_profit, 2),
         roi |-> round(roi(net_profit, total_risked), 1),
         avg_bet_size |-> IF total_bets > 0
                          THEN round(RDiv(total_wagered, R(total_bets)), 2)
                          ELSE R(0)]

get_betting_stats(p) ==
    /\ pc[p] = "idle"
    /\ last' = [op |-> "get_betting_stats", bet_id |-> 0, outcome |-> "return",
                printed |-> "", stats |-> betting_stats(placed_bets),
                bets |-> Null]
    /\ UNCHANGED <<placed_bets, seq, clock, pc, local, kellyVars, evVars>>

\* The limits a caller passes to get_recent_bets: one row, and the default.
RecentLimits == {1, 20}

\* ORDER BY placed_date DESC: every arrangement of the rows in which no row
\* comes before one placed later.  Rows placed at the same time come in
\* either order.
ordered_by_placed_date(table) ==
    {s \in [1..Cardinality(DOMAIN table) -> DOMAIN table] :
        /\ \A i, j \in DOMAIN s : i # j => s[i] # s[j]
        /\ \A i, j \in DOMAIN s :
               i < j => table[s[i]].placed_date[1] >= table[s[j]].placed_date[1]}

\* LIMIT ?, then one dictionary per row with the fifteen columns by name.
recent_bets(table, order, limit) ==
    [k \in 1..(IF limit < Len(order) THEN limit ELSE Len(order)) |-> table[order[k]]]

get_recent_bets(p, limit) ==
    /\ pc[p] = "idle"
    /\ \E order \in ordered_by_placed_date(placed_bets) :
           last' = [op |-> "get_recent_bets", bet_id |-> 0, outcome |-> "return",
                    printed |-> "", stats |-> Null,
                    bets |-> recent_bets(placed_bets, order, limit)]
    /\ UNCHANGED <<placed_bets, seq, clock, pc, local, kellyVars, evVars>>


(***************************************************************************)
(* The Kelly Sizing Engine, once per module that defines it.  self is the  *)
(* calculator object: its bankroll, standard unit and safety limits.       *)
(***************************************************************************)
\* kelly_calculator.KellyCalculator.__init__
KellyCalculator(bank, standard_unit) ==
    [bankroll |-> bank, standard_unit |-> standard_unit,
     max_bet_percentage |-> R(5), min_bet_percentage |-> <<1, 2>>]

\* ev_calculator.KellyCalculator.__init__
EvKellyCalculator(bank, standard_unit) ==
    [bankroll |-> bank, standard_unit |-> standard_unit,
     max_bet_percentage |-> R(10), min_bet_percentage |-> <<1, 10>>]

KellyRaised == [outcome |-> "ZeroDivisionError", recommended_percentage |-> Null,
                recommended_dollars |-> Null, unit_size |-> Null,
                risk_level |-> "", kelly_category |-> ""]

\* kelly_calculator.KellyCalculator.calculate_kelly_size, the odds conversion and
\* the half-Kelly formula: the percentage of bankroll before the limits.
half_kelly_percentage(sharp_probability, american_odds) ==
    LET payout_multiplier == IF american_odds > 0
                             THEN Norm(american_odds, 100)
                             ELSE Norm(100, Abs(american_odds))
        b == payout_multiplier
        p == RDiv(sharp_probability, R(100))
        q == RSub(R(1), p)
        full_kelly == IF RLe(b, R(0)) THEN R(0)
                      ELSE RDiv(RSub(RMul(b, p), q), b)
        half_kelly == RMul(full_kelly, <<1, 2>>)
    IN  RMul(half_kelly, R(100))

\* safety_limits with HIGH starting above 3.0 instead of at 3.0.
safety_limits_strict_high(self, kelly_percentage) ==
    IF RLt(kelly_percentage, self.min_bet_percentage)
    THEN [pct |-> R(0), risk_level |-> "SKIP", kelly_category |-> "TOO SMALL"]
    ELSE IF RGt(kelly_percentage, self.max_bet_percentage)
    THEN [pct |-> self.max_bet_percentage, risk_level |-> "CAPPED",
          kelly_category |-> "CAPPED"]
    ELSE IF RGt(kelly_percentage, R(3))
    THEN [pct |-> kelly_percentage, risk_level |-> "HIGH", kelly_category |-> "LARGE"]
    ELSE IF RGe(kelly_percentage, R(2))
    THEN [pct |-> kelly_percentage, risk_level |-> "MEDIUM", kelly_category |-> "MEDIUM"]
    ELSE IF RGe(kelly_percentage, R(1))
    THEN [pct |-> kelly_percentage, risk_level |-> "LOW", kelly_category |-> "SMALL"]
    ELSE [pct |-> kelly_percentage, risk_level |-> "MINIMAL", kelly_category |-> "TINY"]

\* safety_limits without the ceiling.
safety_limits_uncapped(self, kelly_percentage) ==
    IF RLt(kelly_percentage, self.min_bet_percentage)
    THEN [pct |-> R(0), risk_level |-> "SKIP", kelly_category |-> "TOO SMALL"]
    ELSE IF RGe(kelly_percentage, R(3))
    THEN [pct |-> kelly_percentage, risk_level |-> "HIGH", kelly_category |-> "LARGE"]
    ELSE IF RGe(kelly_percentage, R(2))
    THEN [pct |-> kelly_percentage, risk_level |-> "MEDIUM", kelly_category |-> "MEDIUM"]
    ELSE IF RGe(kelly_percentage, R(1))
    THEN [pct |-> kelly_percentage, risk_level |-> "LOW", kelly_category |-> "SMALL"]
    ELSE [pct |-> kelly_percentage, risk_level |-> "MINIMAL", kelly_category |-> "TINY"]

\* kelly_calculator.KellyCalculator.calculate_kelly_size, "Apply safety limits".
safety_limits(self, kelly_percentage) ==
    IF RLt(kelly_percentage, self.min_bet_percentage)
    THEN [pct |-> R(0), risk_level |-> "SKIP", kelly_category |-> "TOO SMALL"]
    ELSE IF RGt(kelly_percentage, self.max_bet_percentage)
    THEN [pct |-> self.max_bet_percentage, risk_level |-> "CAPPED",
          kelly_category |-> "CAPPED"]
    ELSE IF RGe(kelly_percentage, R(3))
    THEN [pct |-> kelly_percentage, risk_level |-> "HIGH", kelly_category |-> "LARGE"]
    ELSE IF RGe(kelly_percentage, R(2))
    THEN [pct |-> kelly_percentage, risk_level |-> "MEDIUM", kelly_category |-> "MEDIUM"]
    ELSE IF RGe(kelly_percentage, R(1))
    THEN [pct |-> kelly_percentage, risk_level |-> "LOW", kelly_category |-> "SMALL"]
    ELSE [pct |-> kelly_percentage, risk_level |-> "MINIMAL", kelly_category |-> "TINY"]

\* calculate_kelly_size refusing to size when the edge passed in is not positive.
calculate_kelly_size_by_edge(self, ev_percentage, sharp_probability, american_odds) ==
    IF american_odds = 0 THEN KellyRaised
    ELSE
    LET sized == safety_limits(self,
                     IF RLe(ev_percentage, R(0)) THEN R(0)
                     ELSE half_kelly_percentage(sharp_probability, american_odds))
        recommended_dollars == RMul(RDiv(sized.pct, R(100)), self.bankroll)
        unit_size == RDiv(recommended_dollars, self.standard_unit)
    IN  [outcome |-> "return",
         recommended_percentage |-> round(sized.pct, 2),
         recommended_dollars |-> round(recommended_dollars, 2),
         unit_size |-> round(unit_size, 2),
         risk_level |-> sized.risk_level,
         kelly_category |-> sized.kelly_category]

\* kelly_calculator.KellyCalculator.calculate_kelly_size
calculate_kelly_size(self, ev_percentage, sharp_probability, american_odds) ==
    IF american_odds = 0 THEN KellyRaised   \* 100 / abs(0)
    ELSE
    LET sized == safety_limits(self,
                     half_kelly_percentage(sharp_probability, american_odds))
        recommended_dollars == RMul(RDiv(sized.pct, R(100)), self.bankroll)
        unit_size == RDiv(recommended_dollars, self.standard_unit)
    IN  [outcome |-> "return",
         recommended_percentage |-> round(sized.pct, 2),
         recommended_dollars |-> round(recommended_dollars, 2),
         unit_size |-> round(unit_size, 2),
         risk_level |-> sized.risk_level,
         kelly_category |-> sized.kelly_category]

\* ev_calculator.KellyCalculator.calculate_kelly_size, the odds conversion and
\* the half-Kelly formula: the percentage of bankroll before the limits.
ev_half_kelly_percentage(sharp_probability, american_odds) ==
    LET payout_multiplier == IF american_odds > 0
                             THEN Norm(american_odds, 100)
                             ELSE Norm(100, Abs(american_odds))
        b == payout_multiplier
        p == RDiv(sharp_probability, R(100))
        q == RSub(R(1), p)
        full_kelly == IF RLe(b, R(0)) THEN R(0)
                      ELSE RDiv(RSub(RMul(b, p), q), b)
        half_kelly == RMul(full_kelly, <<1, 2>>)
    IN  RMul(half_kelly, R(100))

\* ev_calculator.KellyCalculator.calculate_kelly_size, "Apply safety limits".
ev_safety_limits(self, kelly_percentage) ==
    IF RLt(kelly_percentage, self.min_bet_percentage)
    THEN [pct |-> R(0), risk_level |-> "SKIP", kelly_category |-> "TOO SMALL"]
    ELSE IF RGt(kelly_percentage, self.max_bet_percentage)
    THEN [pct |-> self.max_bet_percentage, risk_level |-> "CAPPED",
          kelly_category |-> "CAPPED"]
    ELSE IF RGe(kelly_percentage, R(3))
    THEN [pct |-> kelly_percentage, risk_level |-> "HIGH", kelly_category |-> "LARGE"]
    ELSE IF RGe(kelly_percentage, R(2))
    THEN [pct |-> kelly_percentage, risk_level |-> "MEDIUM", kelly_category |-> "MEDIUM"]
    ELSE IF RGe(kelly_percentage, R(1))
    THEN [pct |-> kelly_percentage, risk_level |-> "LOW", kelly_category |-> "SMALL"]
    ELSE [pct |-> kelly_percentage, risk_level |-> "MINIMAL", kelly_category |-> "TINY"]

\* ev_calculator.KellyCalculator.calculate_kelly_size
ev_calculate_kelly_size(self, ev_percentage, sharp_probability, american_odds) ==
    IF american_odds = 0 THEN KellyRaised   \* 100 / abs(0)
    ELSE
    LET sized == ev_safety_limits(self,
                     ev_half_kelly_percentage(sharp_probability, american_odds))
        recommended_dollars == RMul(RDiv(sized.pct, R(100)), self.bankroll)
        unit_size == RDiv(recommended_dollars, self.standard_unit)
    IN  [outcome |-> "return",
         recommended_percentage |-> round(sized.pct, 2),
         recommended_dollars |-> round(recommended_dollars, 2),
         unit_size |-> round(unit_size, 2),
         risk_level |-> sized.risk_level,
         kelly_category |-> sized.kelly_category]

\* The inputs of a sizing call: win probabilities 0..100 in steps of
\* 1/ProbDen, favourites, underdogs and the degenerate quote 0.
ProbInputs == {Norm(k, ProbDen) : k \in 0..(100 * ProbDen)}
OddsInputs == {-400, -200, -135, -110, 0, 100, 130, 150, 300}
EvInputs == {R(0), <<11, 5>>}
Bankrolls == {R(1000), R(250)}
KellyImpls == {"kelly_calculator", "ev_calculator"}

KellyCalls == [impl : KellyImpls, ev_percentage : EvInputs,
               sharp_probability : ProbInputs, american_odds : OddsInputs]

NoKellyCall == [impl |-> "none", ev_percentage |-> R(0),
                sharp_probability |-> R(0), american_odds |-> 0]
NoKellyResult == [outcome |-> "none", recommended_percentage |-> Null,
                  recommended_dollars |-> Null, unit_size |-> Null,
                  risk_level |-> "", kelly_category |-> ""]

\* The calculator each module builds: kelly_calculator.main() and
\* EVCalculator.__init__ both pass bankroll 1000.0 and unit 10.0; only the
\* former has update_bankroll.
KellySelf(impl) ==
    IF impl = "kelly_calculator" THEN KellyCalculator(bankroll, R(10))
    ELSE EvKellyCalculator(R(1000), R(10))

KellySize(c) ==
    IF c.impl = "kelly_calculator"
    THEN calculate_kelly_size(KellySelf(c.impl), c.ev_percentage,
                              c.sharp_probability, c.american_odds)
    ELSE ev_calculate_kelly_size(KellySelf(c.impl), c.ev_percentage,
                                 c.sharp_probability, c.american_odds)

\* One call of calculate_kelly_size with the drawn arguments.
kelly_size_call ==
    /\ kcall.impl \in KellyImpls
    /\ kresult' = KellySize(kcall)
    /\ UNCHANGED <<kcall, bankroll, ledgerVars, evVars>>

\* kelly_calculator.KellyCalculator.update_bankroll
update_bankroll(new_bankroll) ==
    /\ kcall.impl \in KellyImpls
    /\ bankroll' = new_bankroll
    /\ UNCHANGED <<kcall, kresult, ledgerVars, evVars>>

(***************************************************************************)
(* The Odds Normalizer and the Vig Remover of ev_calculator.EVCalculator.  *)
(***************************************************************************)
\* odds_to_implied_prob with the two branches exchanged.
odds_to_implied_prob_swapped(american_odds) ==
    IF american_odds > 0
    THEN Norm(american_odds, american_odds + 100)
    ELSE Norm(100, -american_odds + 100)

\* For odds 0 the else branch returns -0 / (-0 + 100) = 0.0.
odds_to_implied_prob(american_odds) ==
    IF american_odds > 0
    THEN Norm(100, american_odds + 100)
    ELSE Norm(-american_odds, -american_odds + 100)

\* remove_vig normalising whatever the total is.
remove_vig_always(fighter1_odds, fighter2_odds) ==
    LET prob1 == odds_to_implied_prob(fighter1_odds)
        prob2 == odds_to_implied_prob(fighter2_odds)
        total_prob == RAdd(prob1, prob2)
    IN  IF total_prob = R(0) THEN <<prob1, prob2>>
        ELSE <<RDiv(prob1, total_prob), RDiv(prob2, total_prob)>>

remove_vig(fighter1_odds, fighter2_odds) ==
    LET prob1 == odds_to_implied_prob(fighter1_odds)
        prob2 == odds_to_implied_prob(fighter2_odds)
        total_prob == RAdd(prob1, prob2)
    IN  IF RLe(total_prob, R(1)) THEN <<prob1, prob2>>
        ELSE <<RDiv(prob1, total_prob), RDiv(prob2, total_prob)>>

\* The quotes a conversion is called with: every integer up to MaxOdds either
\* way (means of several quotes fall there) and the usual moneylines.
OddsRange ==
    (-MaxOdds..MaxOdds) \cup
    {-400, -300, -200, -170, -150, -140, -135, -130, -120, -110, -100,
     100, 110, 120, 125, 130, 150, 170, 200, 300, 400}

OddsCalls ==
    {[fn |-> "odds_to_implied_prob", a |-> o, b |-> o] : o \in OddsRange}
    \cup [fn : {"remove_vig"}, a : OddsRange, b : OddsRange]

NoOddsCall == [fn |-> "none", a |-> 0, b |-> 0]
NoOddsResult == [outcome |-> "none", value |-> Null]

odds_to_implied_prob_call ==
    /\ ocall.fn = "odds_to_implied_prob"
    /\ oresult' = [outcome |-> "return", value |-> odds_to_implied_prob(ocall.a)]
    /\ UNCHANGED <<ocall, fights, evlast, ledgerVars, kellyVars>>

remove_vig_call ==
    /\ ocall.fn = "remove_vig"
    /\ oresult' = [outcome |-> "return", value |-> remove_vig(ocall.a, ocall.b)]
    /\ UNCHANGED <<ocall, fights, evlast, ledgerVars, kellyVars>>


(***************************************************************************)
(* backend/ev_calculator.py EVCalculator: the consensus builder and the    *)
(* EV detector.  A dict is modelled by the sequence of its items in        *)
(* insertion order, an EVResult by a record of its fields.                 *)
(***************************************************************************)
sharp_books == {"Pinnacle", "BetOnline", "Circa Sports"}
square_books == {"DraftKings", "Bet365", "FanDuel"}
\* Thresholds that let every edge through.
ev_thresholds_open == [conservative |-> R(-100), moderate |-> R(-100), aggressive |-> R(-100)]
ev_thresholds == [conservative |-> R(2), moderate |-> R(1), aggressive |-> <<1, 2>>]
kelly_calc == EvKellyCalculator(R(1000), R(10))

\* scraper.FighterOdds and scraper.Fight, the fields the calculator reads.
FighterOdds(fighter_name, odds, book) ==
    [fighter_name |-> fighter_name, odds |-> odds, book |-> book]
Fight(fighter1, fighter2, odds_data) ==
    [fighter1 |-> fighter1, fighter2 |-> fighter2, odds_data |-> odds_data]

\* The keys of book_odds in insertion order: each book at its first quote.
RECURSIVE BookKeys(_)
BookKeys(odds_data) ==
    IF odds_data = <<>> THEN <<>>
    ELSE LET keys == BookKeys(SubSeq(odds_data, 1, Len(odds_data) - 1))
             book == odds_data[Len(odds_data)].book
         IN  IF \E i \in DOMAIN keys : keys[i] = book THEN keys
             ELSE Append(keys, book)

\* book_odds[book]: the fighters the book quotes, a later quote of the same
\* fighter overwriting an earlier one.
QuoteIndexes(odds_data, book, fighter_name) ==
    {i \in DOMAIN odds_data : /\ odds_data[i].book = book
                              /\ odds_data[i].fighter_name = fighter_name}
BookQuote(odds_data, book, fighter_name) ==
    odds_data[Max(QuoteIndexes(odds_data, book, fighter_name))].odds

\* A variant that keeps a book quoting fighter1 only, pricing fighter2 alike.
get_book_odds_for_fight_one_sided(fight) ==
    LET keys == BookKeys(fight.odds_data)
        Quotes(book, name) == QuoteIndexes(fight.odds_data, book, name) # {}
        HasFighter1(book) == Quotes(book, fight.fighter1)
        kept == SelectSeq(keys, HasFighter1)
    IN  [i \in DOMAIN kept |->
            [book |-> kept[i],
             fighter1 |-> BookQuote(fight.odds_data, kept[i], fight.fighter1),
             fighter2 |-> IF Quotes(kept[i], fight.fighter2)
                          THEN BookQuote(fight.odds_data, kept[i], fight.fighter2)
                          ELSE BookQuote(fight.odds_data, kept[i], fight.fighter1)]]

get_book_odds_for_fight(fight) ==
    LET keys == BookKeys(fight.odds_data)
        Quotes(book, name) == QuoteIndexes(fight.odds_data, book, name) # {}
        IsComplete(book) == Quotes(book, fight.fighter1) /\ Quotes(book, fight.fighter2)
        complete_books == SelectSeq(keys, IsComplete)
    IN  [i \in DOMAIN complete_books |->
            [book |-> complete_books[i],
             fighter1 |-> BookQuote(fight.odds_data, complete_books[i], fight.fighter1),
             fighter2 |-> BookQuote(fight.odds_data, complete_books[i], fight.fighter2)]]

\* Python's int(n / d): truncation toward zero.
Trunc(n, d) == IF n >= 0 THEN n \div d ELSE -((-n) \div d)

RECURSIVE sum(_)
sum(xs) == IF xs = <<>> THEN 0 ELSE sum(Tail(xs)) + Head(xs)

IsSharp(odds) == odds.book \in sharp_books

\* A variant that falls back on every book when no sharp book quotes.
calculate_sharp_consensus_any_book(book_odds) ==
    LET sharp == SelectSeq(book_odds, IsSharp)
        used == IF sharp = <<>> THEN book_odds ELSE sharp
        f1_odds == [i \in DOMAIN used |-> used[i].fighter1]
        f2_odds == [i \in DOMAIN used |-> used[i].fighter2]
    IN  IF used = <<>> THEN Null
        ELSE remove_vig(Trunc(sum(f1_odds), Len(f1_odds)),
                        Trunc(sum(f2_odds), Len(f2_odds)))

\* A variant that normalises the consensus whatever the total.
calculate_sharp_consensus_normalised(book_odds) ==
    LET sharp == SelectSeq(book_odds, IsSharp)
        f1_odds == [i \in DOMAIN sharp |-> sharp[i].fighter1]
        f2_odds == [i \in DOMAIN sharp |-> sharp[i].fighter2]
    IN  IF sharp = <<>> THEN Null
        ELSE remove_vig_always(Trunc(sum(f1_odds), Len(f1_odds)),
                               Trunc(sum(f2_odds), Len(f2_odds)))

\* None is Null; a consensus is the pair <<sharp_prob1, sharp_prob2>>.
calculate_sharp_consensus(book_odds) ==
    LET sharp == SelectSeq(book_odds, IsSharp)
        sharp_f1_odds == [i \in DOMAIN sharp |-> sharp[i].fighter1]
        sharp_f2_odds == [i \in DOMAIN sharp |-> sharp[i].fighter2]
    IN  IF sharp_f1_odds = <<>> THEN Null
        ELSE LET avg_sharp_f1 == Trunc(sum(sharp_f1_odds), Len(sharp_f1_odds))
                 avg_sharp_f2 == Trunc(sum(sharp_f2_odds), Len(sharp_f2_odds))
             IN  remove_vig(avg_sharp_f1, avg_sharp_f2)

RMin(x, y) == IF RLe(x, y) THEN x ELSE y

\* A confidence score without the bonus for a high EV.
calculate_confidence_score_no_bonus(ev_percentage, sharp_books_count) ==
    LET base == RMin(RMul(ev_percentage, R(15)), R(50))
        agreement == RMin(R(sharp_books_count * 10), R(30))
    IN  RMin(RAdd(base, agreement), R(100))

calculate_confidence_score(ev_percentage, sharp_books_count) ==
    LET base == RMin(RMul(ev_percentage, R(15)), R(50))
        agreement == RMin(R(sharp_books_count * 10), R(30))
        bonus == IF RGe(ev_percentage, R(3)) THEN R(20)
                 ELSE IF RGe(ev_percentage, R(2)) THEN R(15)
                 ELSE IF RGe(ev_percentage, <<3, 2>>) THEN R(10)
                 ELSE R(0)
    IN  RMin(RAdd(RAdd(base, agreement), bonus), R(100))

\* A recommendation by the edge alone.
get_recommendation_by_edge(ev_percentage, confidence_score) ==
    IF RGe(ev_percentage, <<5, 2>>) THEN "STRONG BET"
    ELSE IF RGe(ev_percentage, <<3, 2>>) THEN "GOOD BET"
    ELSE IF RGe(ev_percentage, R(1)) THEN "DECENT BET"
    ELSE "SMALL EDGE"

get_recommendation(ev_percentage, confidence_score) ==
    IF RGe(confidence_score, R(80)) /\ RGe(ev_percentage, <<5, 2>>) THEN "STRONG BET"
    ELSE IF RGe(confidence_score, R(60)) /\ RGe(ev_percentage, <<3, 2>>) THEN "GOOD BET"
    ELSE IF RGe(ev_percentage, R(1)) THEN "DECENT BET"
    ELSE "SMALL EDGE"

\* The EVResult appended for one fighter at one square book.
EVResult(fight, fighter, book, ev, confidence, sharp_prob, square_prob, kelly_result) ==
    [fighter |-> fighter,
     book |-> book,
     ev_percentage |-> round(ev, 2),
     confidence_score |-> round(confidence, 1),
     sharp_consensus_prob |-> round(RMul(sharp_prob, R(100)), 1),
     square_prob |-> round(RMul(square_prob, R(100)), 1),
     recommendation |-> get_recommendation(ev, confidence),
     fight_info |-> <<fight.fighter1, "vs", fight.fighter2>>,
     kelly_size |-> kelly_result.recommended_percentage,
     kelly_dollars |-> kelly_result.recommended_dollars,
     kelly_units |-> kelly_result.unit_size,
     kelly_category |-> kelly_result.kelly_category]

\* "if book not in self.square_books: continue", negated.
is_square_book(book) == book \in square_books

NoResults == [outcome |-> "return", results |-> <<>>]

\* Statements in sequence: what the second appends follows what the first
\* appended, unless one of them raised.
appended(first, second) ==
    IF first.outcome # "return" THEN first
    ELSE IF second.outcome # "return" THEN [outcome |-> second.outcome, results |-> <<>>]
    ELSE [outcome |-> "return", results |-> first.results \o second.results]

\* results.append(EVResult(...)) once calculate_kelly_size has returned.
append_result(fight, fighter, book, ev, confidence, sharp_prob, square_prob, kelly_result) ==
    IF kelly_result.outcome # "return"
    THEN [outcome |-> kelly_result.outcome, results |-> <<>>]
    ELSE [outcome |-> "return",
          results |-> <<EVResult(fight, fighter, book, ev, confidence,
                                 sharp_prob, square_prob, kelly_result)>>]

\* The block without its test of the threshold.
check_fighter_any_edge(fight, fighter, book, ev, sharp_prob, square_prob, american_odds, sharp_count, threshold) ==
    append_result(fight, fighter, book, ev,
                  calculate_confidence_score(ev, sharp_count),
                  sharp_prob, square_prob,
                  ev_calculate_kelly_size(kelly_calc, ev,
                      RMul(sharp_prob, R(100)), american_odds))

\* One "if ev >= self.ev_thresholds[threshold]" block of the loop body.
check_fighter(fight, fighter, book, ev, sharp_prob, square_prob, american_odds, sharp_count, threshold) ==
    IF RGe(ev, ev_thresholds[threshold])
    THEN append_result(fight, fighter, book, ev,
                       calculate_confidence_score(ev, sharp_count),
                       sharp_prob, square_prob,
                       ev_calculate_kelly_size(kelly_calc, ev,
                           RMul(sharp_prob, R(100)), american_odds))
    ELSE NoResults

\* The loop body for one square book: fighter 1, then fighter 2.
check_square_book(fight, odds, sharp_consensus, square, sharp_count, threshold) ==
    appended(
        check_fighter(fight, fight.fighter1, odds.book,
                      RMul(RSub(sharp_consensus[1], square[1]), R(100)),
                      sharp_consensus[1], square[1], odds.fighter1,
                      sharp_count, threshold),
        check_fighter(fight, fight.fighter2, odds.book,
                      RMul(RSub(sharp_consensus[2], square[2]), R(100)),
                      sharp_consensus[2], square[2], odds.fighter2,
                      sharp_count, threshold))

\* The loop over book_odds.items() of calculate_fight_evs after n items: the
\* results appended so far, or the exception calculate_kelly_size raised.
RECURSIVE check_square_books(_, _, _, _, _)
check_square_books(fight, book_odds, sharp_consensus, threshold, n) ==
    IF n = 0 THEN NoResults
    ELSE appended(
             check_square_books(fight, book_odds, sharp_consensus, threshold, n - 1),
             IF is_square_book(book_odds[n].book)
             THEN check_square_book(fight, book_odds[n], sharp_consensus,
                      remove_vig(book_odds[n].fighter1, book_odds[n].fighter2),
                      Len(SelectSeq(book_odds, IsSharp)), threshold)
             ELSE NoResults)

\* A descending sort that puts a later result ahead of its equals.
RECURSIVE sorted_by_ev_unstable(_)
sorted_by_ev_unstable(results) ==
    IF results = <<>> THEN <<>>
    ELSE LET front == sorted_by_ev_unstable(SubSeq(results, 1, Len(results) - 1))
             x == results[Len(results)]
             k == Cardinality({i \in DOMAIN front :
                                  RGt(front[i].ev_percentage, x.ev_percentage)})
         IN  SubSeq(front, 1, k) \o <<x>> \o SubSeq(front, k + 1, Len(front))

\* sorted(results, key=ev_percentage, reverse=True): descending and stable.
RECURSIVE sorted_by_ev(_)
sorted_by_ev(results) ==
    IF results = <<>> THEN <<>>
    ELSE LET front == sorted_by_ev(SubSeq(results, 1, Len(results) - 1))
             x == results[Len(results)]
             k == Cardinality({i \in DOMAIN front :
                                  RGe(front[i].ev_percentage, x.ev_percentage)})
         IN  SubSeq(front, 1, k) \o <<x>> \o SubSeq(front, k + 1, Len(front))

sorted_results(looped) ==
    [outcome |-> looped.outcome, results |-> sorted_by_ev(looped.results)]

\* calculate_fight_evs from "sharp_consensus = ..." on.
evs_against_consensus(fight, book_odds, sharp_consensus, threshold) ==
    IF sharp_consensus = Null THEN NoResults
    ELSE sorted_results(check_square_books(fight, book_odds, sharp_consensus,
                                           threshold, Len(book_odds)))

\* calculate_fight_evs from "if len(book_odds) < 2" on.
evs_of_books(fight, book_odds, threshold) ==
    IF Len(book_odds) < 2 THEN NoResults
    ELSE evs_against_consensus(fight, book_odds,
                               calculate_sharp_consensus(book_odds), threshold)

\* A detector that reports nothing right after a call that reported something.
calculate_fight_evs_once(fight, threshold) ==
    IF evlast.results # <<>> THEN NoResults
    ELSE evs_of_books(fight, get_book_odds_for_fight(fight), threshold)

calculate_fight_evs(fight, threshold) ==
    evs_of_books(fight, get_book_odds_for_fight(fight), threshold)

\* The loop of analyze_all_fights over the first n fights: an exception of
\* calculate_fight_evs is not caught.
RECURSIVE all_evs(_, _)
all_evs(fs, n) ==
    IF n = 0 THEN NoResults
    ELSE appended(all_evs(fs, n - 1), calculate_fight_evs(fs[n], "moderate"))

analyze_all_fights(fs) == sorted_results(all_evs(fs, Len(fs)))

\* The markets analysed: five books in scrape order, two sharp, two square
\* and one the calculator does not list, each quoting nothing, one fighter,
\* or both fighters at one of a few prices (a favourite either way, a
\* pick'em, both at plus money, a quote of 0); the first sharp and the first
\* square book take every price, the others a few.
MaxBatch == 2
Books == <<"Pinnacle", "BetOnline", "DraftKings", "FanDuel", "Bovada">>
Prices == {<<-150, 130>>, <<130, -150>>, <<-110, -110>>, <<-140, 120>>,
           <<110, 110>>, <<0, -110>>}
Quoted(book, prices) ==
    {<<FighterOdds("F1", p[1], book), FighterOdds("F2", p[2], book)>> : p \in prices}
BookQuotes(book) ==
    {<<>>, <<FighterOdds("F1", -150, book)>>} \cup Quoted(book, Prices)
SecondSharpQuotes(book) ==
    {<<>>, <<FighterOdds("F2", 130, book)>>}
    \cup Quoted(book, {<<130, -150>>, <<-140, 120>>})
SecondSquareQuotes(book) ==
    {<<>>} \cup Quoted(book, {<<-110, -110>>, <<-140, 120>>, <<110, 110>>})
UnlistedQuotes(book) ==
    {<<>>} \cup Quoted(book, {<<-110, -110>>})
Requoted ==
    Fight("F1", "F2",
          <<FighterOdds("F1", -110, "Pinnacle"), FighterOdds("F1", -110, "DraftKings"),
            FighterOdds("F2", -110, "DraftKings"), FighterOdds("F2", -110, "Pinnacle"),
            FighterOdds("F1", -150, "Pinnacle"), FighterOdds("F2", 130, "Pinnacle"),
            FighterOdds("F3", 500, "Pinnacle")>>)
Borderline ==
    Fight("F1", "F2",
          <<FighterOdds("F1", -160, "Pinnacle"), FighterOdds("F2", 140, "Pinnacle"),
            FighterOdds("F1", -140, "DraftKings"), FighterOdds("F2", 130, "DraftKings")>>)
MarketFights ==
    {Fight("F1", "F2", q1 \o q2 \o q3 \o q4 \o q5) :
        q1 \in BookQuotes(Books[1]), q2 \in SecondSharpQuotes(Books[2]),
        q3 \in BookQuotes(Books[3]), q4 \in SecondSquareQuotes(Books[4]),
        q5 \in UnlistedQuotes(Books[5])}
    \cup {Requoted, Borderline}
BatchFights ==
    {Requoted,
     Fight("F1", "F2", <<FighterOdds("F1", -150, "Pinnacle"), FighterOdds("F2", 130, "Pinnacle"),
                         FighterOdds("F1", -140, "FanDuel"), FighterOdds("F2", 120, "FanDuel")>>),
     Fight("F3", "F4", <<FighterOdds("F3", 130, "BetOnline"), FighterOdds("F4", -150, "BetOnline"),
                         FighterOdds("F3", -110, "DraftKings"), FighterOdds("F4", -110, "DraftKings")>>),
     Fight("F5", "F6", <<FighterOdds("F5", -150, "Pinnacle"), FighterOdds("F6", 130, "Pinnacle"),
                         FighterOdds("F5", 0, "DraftKings"), FighterOdds("F6", -110, "DraftKings")>>),
     Fight("F7", "F8", <<FighterOdds("F7", -150, "DraftKings"), FighterOdds("F8", 130, "DraftKings"),
                         FighterOdds("F7", -110, "FanDuel"), FighterOdds("F8", -110, "FanDuel")>>)}
RECURSIVE Batches(_)
Batches(n) ==
    IF n = 0 THEN {<<>>}
    ELSE Batches(n - 1) \cup {Append(b, f) : b \in {c \in Batches(n - 1) : Len(c) = n - 1},
                                             f \in BatchFights}
FightLists == {<<f>> : f \in MarketFights} \cup Batches(MaxBatch)

NoEvCall == [op |-> "none", index |-> 0, threshold |-> "", outcome |-> "none",
             results |-> <<>>, consensus |-> Null]

\* What a call leaves to observe: the call and what it returned or raised.
EvCall(op, index, threshold, returned, consensus) ==
    [op |-> op, index |-> index, threshold |-> threshold,
     outcome |-> returned.outcome, results |-> returned.results,
     consensus |-> consensus]

\* One call of calculate_sharp_consensus on the complete books of a fight.
calculate_sharp_consensus_call ==
    \E i \in DOMAIN fights :
        /\ evlast' = EvCall("calculate_sharp_consensus", i, "", NoResults,
                            calculate_sharp_consensus(
                                get_book_odds_for_fight(fights[i])))
        /\ UNCHANGED <<ocall, oresult, fights, ledgerVars, kellyVars>>

\* One call of calculate_fight_evs on a fight with one of the thresholds.
calculate_fight_evs_call ==
    \E i \in DOMAIN fights, threshold \in DOMAIN ev_thresholds :
        /\ evlast' = EvCall("calculate_fight_evs", i, threshold,
                            calculate_fight_evs(fights[i], threshold), Null)
        /\ UNCHANGED <<ocall, oresult, fights, ledgerVars, kellyVars>>

\* One call of analyze_all_fights on the whole list.
analyze_all_fights_call ==
    /\ evlast' = EvCall("analyze_all_fights", 0, "moderate",
                        analyze_all_fights(fights), Null)
    /\ UNCHANGED <<ocall, oresult, fights, ledgerVars, kellyVars>>

(***************************************************************************)
(* Specifications.                                                         *)
(***************************************************************************)
LedgerInit ==
    /\ placed_bets = <<>>
    /\ seq = 0
    /\ clock = 0
    /\ pc = [p \in Procs |-> "idle"]
    /\ local = [p \in Procs |-> Null]
    /\ last = NoCall

KellyIdle ==
    /\ kcall = NoKellyCall
    /\ kresult = NoKellyResult
    /\ bankroll = R(1000)

OddsIdle ==
    /\ ocall = NoOddsCall
    /\ oresult = NoOddsResult

EvIdle ==
    /\ fights = <<>>
    /\ evlast = NoEvCall

Init == LedgerInit /\ KellyIdle /\ OddsIdle /\ EvIdle

\* Two callers, each on its own connection, at most MaxBets rows.
Next ==
    \/ \E p \in Procs, a \in BetInputs : seq < MaxBets /\ add_bet(p, a)
    \/ \E p \in Procs, i \in BetIds, won \in BOOLEAN : settle_bet_select(p, i, won)
    \/ \E p \in Procs : settle_bet_update(p)
    \/ \E p \in Procs : get_betting_stats(p)
    \/ \E p \in Procs, limit \in RecentLimits : get_recent_bets(p, limit)
    \/ Tick

Spec == Init /\ [][Next]_vars

\* The single-threaded use the engine is designed for: one caller, each call
\* running to its end before the next, at most MaxSeqBets rows.
SeqNext ==
    \/ \E a \in BetInputs : seq < MaxSeqBets /\ add_bet("c1", a)
    \/ \E i \in 1..(MaxSeqBets + 1), won \in BOOLEAN : settle_bet_select("c1", i, won)
    \/ settle_bet_update("c1")
    \/ get_betting_stats("c1")
    \/ \E limit \in RecentLimits : get_recent_bets("c1", limit)
    \/ Tick

SpecSeq == Init /\ [][SeqNext]_vars

KellyInit ==
    /\ LedgerInit /\ OddsIdle /\ EvIdle
    /\ kcall \in KellyCalls
    /\ kresult = NoKellyResult
    /\ bankroll = R(1000)

KellyNext ==
    \/ kelly_size_call
    \/ \E b \in Bankrolls : update_bankroll(b)

SpecKelly == KellyInit /\ [][KellyNext]_vars

OddsInit ==
    /\ LedgerInit /\ KellyIdle /\ EvIdle
    /\ ocall \in OddsCalls
    /\ oresult = NoOddsResult

OddsNext ==
    \/ odds_to_implied_prob_call
    \/ remove_vig_call

SpecOdds == OddsInit /\ [][OddsNext]_vars

EvInit ==
    /\ LedgerInit /\ KellyIdle /\ OddsIdle
    /\ fights \in FightLists
    /\ evlast = NoEvCall

EvNext ==
    \/ calculate_sharp_consensus_call
    \/ calculate_fight_evs_call
    \/ analyze_all_fights_call

SpecEV == EvInit /\ [][EvNext]_vars



(***************************************************************************)
(* The claims.                                                             *)
(***************************************************************************)
Rows == DOMAIN placed_bets

\* C1: a settled bet's status, settlement amount and settlement timestamp
\* are never rewritten: a second settle of the same id is rejected or does
\* nothing.
C1_SettlementNeverRewritten ==
    [][\A i \in Rows :
          placed_bets[i].status # "pending" =>
              /\ placed_bets'[i].status = placed_bets[i].status
              /\ placed_bets'[i].result_amount = placed_bets[i].result_amount
              /\ placed_bets'[i].settled_date = placed_bets[i].settled_date]_vars

\* C2: the status of a bet only moves forward: it starts as pending, may
\* change once to won, lost or cancelled, and never changes after that.
C2_StatusOnlyForward ==
    [][/\ \A i \in DOMAIN placed_bets' \ Rows : placed_bets'[i].status = "pending"
       /\ \A i \in Rows :
             IF placed_bets[i].status = "pending"
             THEN placed_bets'[i].status \in {"pending", "won", "lost", "cancelled"}
             ELSE placed_bets'[i].status = placed_bets[i].status]_vars

\* C3: of two concurrent settles of one pending bet at most one writes: a
\* settle that read the row as pending never writes over a row that another
\* settle has settled since that read.
C3_AtMostOneSettleWrites ==
    [][\A p \in Procs :
          (/\ pc[p] = "selected"
           /\ local[p].bet.status = "pending"
           /\ settle_bet_update(p)
           /\ placed_bets' # placed_bets)
          => placed_bets[local[p].bet_id].status = "pending"]_vars

\* C4: a settle of an id the ledger does not hold fails with NotFoundError.
C4_UnknownIdRaisesNotFound ==
    (last.op = "settle_bet" /\ last.bet_id \notin Rows)
        => last.outcome = "NotFoundError"

\* C5: a bet settled as won stores stake + stake * (odds / 100) for positive
\* odds and stake + stake * (100 / |odds|) for negative odds (50 at +150
\* gives 125, 50 at -200 gives 75); a bet settled as lost stores 0.
C5_SettlementAmount ==
    \A i \in Rows :
        LET r == placed_bets[i]
            s == r.bet_amount
        IN  /\ (r.status = "won" /\ r.odds > 0) =>
                   RMul(R(100), r.result_amount) = RMul(s, R(100 + r.odds))
            /\ (r.status = "won" /\ r.odds < 0) =>
                   RMul(R(-r.odds), r.result_amount) = RMul(s, R(100 - r.odds))
            /\ (r.status = "won" /\ s = R(50) /\ r.odds = 150) => r.result_amount = R(125)
            /\ (r.status = "won" /\ s = R(50) /\ r.odds = -200) => r.result_amount = R(75)
            /\ r.status = "lost" => r.result_amount = R(0)

C5_Witness ==
    \E i, j \in Rows :
        /\ placed_bets[i].status = "won" /\ placed_bets[i].odds = 150
        /\ placed_bets[i].result_amount = R(125)
        /\ placed_bets[j].status = "won" /\ placed_bets[j].odds = -200
        /\ placed_bets[j].result_amount = R(75)

\* C6: every add_bet returns an id that no row of the ledger has and that is
\* greater than every id assigned before, and creates that row as pending.
C6_FreshIncreasingId ==
    [][\A p \in Procs, a \in BetInputs :
          add_bet(p, a) =>
              /\ last'.bet_id \notin Rows
              /\ \A j \in Rows : last'.bet_id > j
              /\ last'.bet_id \in DOMAIN placed_bets'
              /\ placed_bets'[last'.bet_id].id = last'.bet_id
              /\ placed_bets'[last'.bet_id].status = "pending"
              /\ \A j \in Rows : placed_bets'[j] = placed_bets[j]]_vars

C6_Witness ==
    /\ last.op = "add_bet"
    /\ last.bet_id = 2
    /\ Rows = {1, 2}
    /\ placed_bets[1].status = "won"
    /\ placed_bets[2].status = "pending"

\* C7: cancelled is a third settlement outcome: some settle of a pending bet
\* leaves it cancelled, and only a pending bet ever becomes cancelled.
C7_CancelledSupported ==
    \A i \in Rows :
        placed_bets[i].status = "pending" =>
            \E won \in BOOLEAN : settle_result(placed_bets[i], won).status = "cancelled"


RECURSIVE RSum(_, _)
RSum(f, S) ==
    IF S = {} THEN R(0)
    ELSE LET i == CHOOSE x \in S : TRUE IN RAdd(f[i], RSum(f, S \ {i}))

WonLost == {i \in Rows : placed_bets[i].status = "won" \/ placed_bets[i].status = "lost"}
Won == {i \in Rows : placed_bets[i].status = "won"}
Lost == {i \in Rows : placed_bets[i].status = "lost"}
Pending == {i \in Rows : placed_bets[i].status = "pending"}

\* Over the ledger as it stands: the profit of the settled bets, what they
\* risked, the return on it in percent, and the stakes of all bets.
ExactNetProfit ==
    RSum([i \in WonLost |->
             RSub(placed_bets[i].result_amount, placed_bets[i].bet_amount)], WonLost)
ExactRisked == RSum([i \in WonLost |-> placed_bets[i].bet_amount], WonLost)
ExactRoi ==
    IF ExactRisked[1] > 0
    THEN RDiv(RMul(ExactNetProfit, R(100)), ExactRisked)
    ELSE R(0)
ExactWagered == RSum([i \in Rows |-> placed_bets[i].bet_amount], Rows)

StatsReported == last.op = "get_betting_stats"

\* C8 as stated: the report gives net profit = returned - risked over the won
\* and lost bets and ROI = net profit / risked * 100 (0 when nothing was
\* risked), pending bets counting toward total wagered only.
C8_ExactProfitAndRoi ==
    StatsReported =>
        /\ last.stats.net_profit = ExactNetProfit
        /\ last.stats.roi = ExactRoi
        /\ last.stats.total_wagered = ExactWagered

\* C8 as amended: the report gives those figures rounded, net profit and
\* total wagered to two decimals and ROI to one.
C8_RoundedProfitAndRoi ==
    StatsReported =>
        /\ last.stats.net_profit = round(ExactNetProfit, 2)
        /\ last.stats.roi = round(ExactRoi, 1)
        /\ last.stats.total_wagered = round(ExactWagered, 2)

C8_Witness ==
    /\ StatsReported
    /\ Pending # {} /\ Won # {} /\ Lost # {}
    /\ last.stats.net_profit # ExactNetProfit
    /\ last.stats.roi # ExactRoi
    /\ last.stats.total_wagered # ExactRisked

\* C9 as stated: the reported win rate is the fraction won / (won + lost),
\* in [0, 1], and 0 when no bet is settled.
C9_WinRateFraction ==
    StatsReported =>
        /\ last.stats.win_rate =
              IF WonLost # {}
              THEN Norm(Cardinality(Won), Cardinality(WonLost))
              ELSE R(0)
        /\ RLe(R(0), last.stats.win_rate) /\ RLe(last.stats.win_rate, R(1))

\* C9 as amended: the reported win rate is the percentage
\* won / (won + lost) * 100 rounded to one decimal, in [0, 100], and 0 when
\* no bet is settled.
C9_WinRatePercent ==
    StatsReported =>
        /\ last.stats.win_rate =
              IF WonLost # {}
              THEN round(Norm(100 * Cardinality(Won), Cardinality(WonLost)), 1)
              ELSE R(0)
        /\ RLe(R(0), last.stats.win_rate) /\ RLe(last.stats.win_rate, R(100))

C9_Witness ==
    /\ StatsReported
    /\ Cardinality(Won) = 1 /\ Cardinality(Lost) = 2
    /\ last.stats.win_rate = <<333, 10>>

\* C10: every sizing of a nonzero quote recommends a percentage of bankroll
\* between 0 and the calculator's max_bet_percentage.
C10_KellyWithinLimits ==
    (kresult.outcome = "return" /\ kcall.american_odds # 0) =>
        /\ RLe(R(0), kresult.recommended_percentage)
        /\ RLe(kresult.recommended_percentage, KellySelf(kcall.impl).max_bet_percentage)

C10_Witness ==
    /\ kresult.outcome = "return"
    /\ kcall.impl = "kelly_calculator"
    /\ kcall.american_odds = 150
    /\ kcall.sharp_probability = R(60)
    /\ kresult.risk_level = "CAPPED"
    /\ kresult.recommended_percentage = R(5)


\* The half-Kelly percentage k = 50 * f, f = (b * p - q) / b, of a sizing call.
HalfKellyK(c) ==
    LET b == IF c.american_odds > 0 THEN Norm(c.american_odds, 100)
             ELSE Norm(100, -c.american_odds)
        p == RDiv(c.sharp_probability, R(100))
        q == RSub(R(1), p)
    IN  RMul(R(50), RDiv(RSub(RMul(b, p), q), b))

KellyBand(k) ==
    IF RGe(k, R(3)) THEN "HIGH" ELSE IF RGe(k, R(2)) THEN "MEDIUM"
    ELSE IF RGe(k, R(1)) THEN "LOW" ELSE "MINIMAL"

KellySized == kresult.outcome = "return" /\ kcall.american_odds # 0

\* C11 as stated: below the floor the stake is 0 with tier SKIP, above the
\* ceiling it is the ceiling with tier CAPPED, otherwise it is k itself with
\* tier HIGH / MEDIUM / LOW / MINIMAL by k >= 3, 2, 1; and 57.5 at -135 is
\* sized at the ceiling with tier CAPPED.
C11_TiersAndCappedExample ==
    KellySized =>
        LET k == HalfKellyK(kcall)
            self == KellySelf(kcall.impl)
        IN  /\ IF RLt(k, self.min_bet_percentage)
               THEN /\ kresult.recommended_percentage = R(0)
                    /\ kresult.recommended_dollars = R(0)
                    /\ kresult.risk_level = "SKIP"
               ELSE IF RGt(k, self.max_bet_percentage)
               THEN /\ kresult.recommended_percentage = self.max_bet_percentage
                    /\ kresult.risk_level = "CAPPED"
               ELSE /\ kresult.recommended_percentage = k
                    /\ kresult.risk_level = KellyBand(k)
            /\ (kcall.sharp_probability = <<115, 2>> /\ kcall.american_odds = -135) =>
                   /\ kresult.recommended_percentage = self.max_bet_percentage
                   /\ kresult.risk_level = "CAPPED"

\* C11 as amended: the same bands, the percentage between floor and ceiling
\* being k rounded to two decimals; and 57.5 at -135 has k = 0.0625, below
\* either floor, so its stake is 0 with tier SKIP.
C11_TiersAndSkippedExample ==
    KellySized =>
        LET k == HalfKellyK(kcall)
            self == KellySelf(kcall.impl)
        IN  /\ IF RLt(k, self.min_bet_percentage)
               THEN /\ kresult.recommended_percentage = R(0)
                    /\ kresult.recommended_dollars = R(0)
                    /\ kresult.risk_level = "SKIP"
               ELSE IF RGt(k, self.max_bet_percentage)
               THEN /\ kresult.recommended_percentage = self.max_bet_percentage
                    /\ kresult.risk_level = "CAPPED"
               ELSE /\ kresult.recommended_percentage = round(k, 2)
                    /\ kresult.risk_level = KellyBand(k)
            /\ (kcall.sharp_probability = <<115, 2>> /\ kcall.american_odds = -135) =>
                   /\ k = <<1, 16>>
                   /\ kresult.recommended_percentage = R(0)
                   /\ kresult.risk_level = "SKIP"

C11_Witness ==
    /\ KellySized
    /\ kcall.impl = "kelly_calculator"
    /\ kcall.sharp_probability = <<117, 2>>
    /\ kcall.american_odds = -135
    /\ HalfKellyK(kcall) = <<99, 80>>
    /\ kresult.recommended_percentage = <<31, 25>>
    /\ kresult.risk_level = "LOW"

\* C12: a sizing call returns the same percentage, dollars, units and tier
\* whatever ev_percentage it is given, so a larger ev_percentage never gives a
\* smaller Kelly percentage.
C12_EdgeNotUsed ==
    [][kelly_size_call =>
          \A e \in EvInputs :
              /\ kresult' = KellySize([kcall EXCEPT !.ev_percentage = e])
              /\ RLe(e, kcall.ev_percentage) =>
                     \/ kresult'.outcome # "return"
                     \/ RLe(KellySize([kcall EXCEPT !.ev_percentage = e]).recommended_percentage,
                            kresult'.recommended_percentage)]_vars

C12_Witness ==
    /\ kresult.outcome = "return"
    /\ kcall.impl = "kelly_calculator"
    /\ kcall.ev_percentage = R(0)
    /\ kresult.risk_level = "MEDIUM"

\* C13: the two sizing implementations agree on every input when given the
\* same bankroll, unit and limits, and with the limits each module hard-codes
\* the EV Detector's sizing equals the ledger-side calculator's.
C13_SameSizing ==
    KellySized =>
        LET ledger_side == KellyCalculator(R(1000), R(10))
            ev_side == EvKellyCalculator(R(1000), R(10))
            kc(self) == calculate_kelly_size(self, kcall.ev_percentage,
                            kcall.sharp_probability, kcall.american_odds)
            ec(self) == ev_calculate_kelly_size(self, kcall.ev_percentage,
                            kcall.sharp_probability, kcall.american_odds)
        IN  /\ kc(ledger_side) = ec(ledger_side)
            /\ kc(ev_side) = ec(ev_side)
            /\ kc(ledger_side) = ec(ev_side)


ImpliedProbReturned == ocall.fn = "odds_to_implied_prob" /\ oresult.outcome = "return"
VigRemoved == ocall.fn = "remove_vig" /\ oresult.outcome = "return"

\* C14: for nonzero odds o the implied probability is strictly between 0 and
\* 1, 100 / (o + 100) for o > 0 and |o| / (|o| + 100) for o < 0.
C14_ImpliedProbability ==
    (ImpliedProbReturned /\ ocall.a # 0) =>
        LET o == ocall.a
            v == oresult.value
        IN  /\ RLt(R(0), v) /\ RLt(v, R(1))
            /\ o > 0 => v[1] * (o + 100) = 100 * v[2]
            /\ o < 0 => v[1] * (Abs(o) + 100) = Abs(o) * v[2]
            /\ o = -150 => v = <<3, 5>>
            /\ o = 150 => v = <<2, 5>>

C14_Witness ==
    ImpliedProbReturned /\ ocall.a = -150 /\ oresult.value = <<3, 5>>

\* C15: converting odds 0 fails with InvalidOddsError: neither the implied
\* probability nor the payout multiplier of odds 0 yields a value.
C15_ZeroOddsRejected ==
    /\ (ocall.fn = "odds_to_implied_prob" /\ ocall.a = 0 /\ oresult.outcome # "none")
           => oresult.outcome = "InvalidOddsError"
    /\ (kcall.impl \in KellyImpls /\ kcall.american_odds = 0 /\ kresult.outcome # "none")
           => kresult.outcome = "InvalidOddsError"

\* C16: when the two implied probabilities total more than 1, remove_vig
\* returns each divided by the total, and they sum to 1; when they total at
\* most 1 it returns them unchanged.
C16_RemoveVig ==
    VigRemoved =>
        LET pA == odds_to_implied_prob(ocall.a)
            pB == odds_to_implied_prob(ocall.b)
            total == RAdd(pA, pB)
            v == oresult.value
        IN  IF RGt(total, R(1))
            THEN /\ v = <<RDiv(pA, total), RDiv(pB, total)>>
                 /\ RAdd(v[1], v[2]) = R(1)
            ELSE v = <<pA, pB>>

C16_Witness ==
    /\ VigRemoved
    /\ ocall.a = -150 /\ ocall.b = 130
    /\ oresult.value = <<Norm(69, 119), Norm(50, 119)>>


\* The market a detector call was about, the books quoting both of its
\* fighters, and the market without the quotes of every other book.
Market == fights[evlast.index]
QuotedBooks(fight) == {fight.odds_data[i].book : i \in DOMAIN fight.odds_data}
CompleteBooks(fight) ==
    {b \in QuotedBooks(fight) :
        /\ QuoteIndexes(fight.odds_data, b, fight.fighter1) # {}
        /\ QuoteIndexes(fight.odds_data, b, fight.fighter2) # {}}
SharpQuoted(fight) == CompleteBooks(fight) \cap sharp_books
TwoSided(fight) ==
    LET Kept(q) == q.book \in CompleteBooks(fight)
    IN  Fight(fight.fighter1, fight.fighter2, SelectSeq(fight.odds_data, Kept))
MeanSharpOdds(fight, fighter_name) ==
    LET Quote(b) == IF b \in SharpQuoted(fight)
                    THEN BookQuote(fight.odds_data, b, fighter_name) ELSE 0
    IN  Trunc(Quote("Pinnacle") + Quote("BetOnline") + Quote("Circa Sports"),
              Cardinality(SharpQuoted(fight)))
InUnit(x) == RLe(R(0), x) /\ RLe(x, R(1))
ConsensusBuilt == evlast.op = "calculate_sharp_consensus"
FightAnalysed == evlast.op = "calculate_fight_evs"

\* C17 (as stated): with at least one sharp quote pair the two consensus
\* probabilities lie in [0,1] and sum to 1.
C17_ConsensusSumsToOne ==
    (ConsensusBuilt /\ SharpQuoted(Market) # {}) =>
        LET c == evlast.consensus
        IN  /\ c # Null
            /\ InUnit(c[1]) /\ InUnit(c[2])
            /\ RAdd(c[1], c[2]) = R(1)

\* C17 (amended): with at least one sharp quote pair the two consensus
\* probabilities lie in [0,1]; they sum to 1 when the implied probabilities
\* of the two truncated mean odds total more than 1, and otherwise are those
\* implied probabilities unchanged, summing to at most 1.
C17_ConsensusSumsToOneWhenVigged ==
    (ConsensusBuilt /\ SharpQuoted(Market) # {}) =>
        LET c == evlast.consensus
            pA == odds_to_implied_prob(MeanSharpOdds(Market, Market.fighter1))
            pB == odds_to_implied_prob(MeanSharpOdds(Market, Market.fighter2))
        IN  /\ c # Null
            /\ InUnit(c[1]) /\ InUnit(c[2])
            /\ IF RGt(RAdd(pA, pB), R(1))
               THEN RAdd(c[1], c[2]) = R(1)
               ELSE c = <<pA, pB>> /\ RLe(RAdd(c[1], c[2]), R(1))

C17_Witness ==
    /\ ConsensusBuilt
    /\ SharpQuoted(Market) = {"Pinnacle", "BetOnline"}
    /\ MeanSharpOdds(Market, "F1") = -10 /\ MeanSharpOdds(Market, "F2") = -10
    /\ evlast.consensus = <<<<1, 11>>, <<1, 11>>>>

\* C18: a market without a complete quote of any sharp book has no consensus
\* and no opportunity, whatever the square books quote.
C18_NoSharpNoOpportunity ==
    /\ (ConsensusBuilt /\ SharpQuoted(Market) = {}) => evlast.consensus = Null
    /\ (FightAnalysed /\ SharpQuoted(Market) = {}) =>
           evlast.outcome = "return" /\ evlast.results = <<>>
    /\ (evlast.op = "analyze_all_fights" /\ evlast.outcome = "return") =>
           \A i \in DOMAIN fights : SharpQuoted(fights[i]) = {} =>
               \A k \in DOMAIN evlast.results :
                   evlast.results[k].fight_info
                       # <<fights[i].fighter1, "vs", fights[i].fighter2>>

C18_Witness ==
    /\ FightAnalysed
    /\ SharpQuoted(Market) = {}
    /\ CompleteBooks(Market) = {"DraftKings", "FanDuel"}
    /\ BookQuote(Market.odds_data, "DraftKings", "F1") = -150
    /\ BookQuote(Market.odds_data, "FanDuel", "F1") = -110
    /\ QuoteIndexes(Market.odds_data, "Pinnacle", "F1") # {}
    /\ evlast.results = <<>>

\* C19: for a market with a consensus, an opportunity is emitted for a fighter
\* at a book exactly when the book is a square book quoting both fighters and
\* (consensus probability - the book's vig-free probability) * 100 is at
\* least the threshold in force; never for a sharp or an unlisted book.
C19_EmittedIffSquareEdge ==
    (FightAnalysed /\ SharpQuoted(Market) # {}) =>
        LET consensus == remove_vig(MeanSharpOdds(Market, Market.fighter1),
                                    MeanSharpOdds(Market, Market.fighter2))
            Emitted(b, side) ==
                \E k \in DOMAIN evlast.results :
                    /\ evlast.results[k].book = b
                    /\ evlast.results[k].fighter =
                           IF side = 1 THEN Market.fighter1 ELSE Market.fighter2
            Edge(b, side) ==
                LET square == remove_vig(
                                  BookQuote(Market.odds_data, b, Market.fighter1),
                                  BookQuote(Market.odds_data, b, Market.fighter2))
                IN  RMul(RSub(consensus[side], square[side]), R(100))
        IN  \A b \in QuotedBooks(Market), side \in {1, 2} :
                Emitted(b, side) <=>
                    /\ b \in square_books
                    /\ b \in CompleteBooks(Market)
                    /\ RGe(Edge(b, side), ev_thresholds[evlast.threshold])

\* C20: a market with fewer than two books quoting both fighters yields no
\* opportunity, and a book quoting one fighter only changes nothing: the
\* consensus and the opportunities are those of the market without it.
C20_IncompleteBooksIgnored ==
    /\ FightAnalysed =>
           /\ Cardinality(CompleteBooks(Market)) < 2 =>
                  evlast.outcome = "return" /\ evlast.results = <<>>
           /\ LET returned == calculate_fight_evs(TwoSided(Market), evlast.threshold)
              IN  /\ evlast.outcome = returned.outcome
                  /\ evlast.results = returned.results
    /\ ConsensusBuilt =>
           evlast.consensus =
               calculate_sharp_consensus(get_book_odds_for_fight(TwoSided(Market)))

C20_Witness ==
    /\ FightAnalysed
    /\ CompleteBooks(Market) = {"Pinnacle"}
    /\ QuotedBooks(Market) = {"Pinnacle", "BetOnline", "DraftKings"}
    /\ evlast.outcome = "return" /\ evlast.results = <<>>


BatchAnalysed == evlast.op = "analyze_all_fights"

\* The opportunities of a call before its final sort: those of one market as
\* the loop appended them, book by book, fighter 1 before fighter 2; those of
\* a batch market by market, each market's as calculate_fight_evs returned them.
AppendOrder ==
    IF BatchAnalysed THEN all_evs(fights, Len(fights)).results
    ELSE LET book_odds == get_book_odds_for_fight(Market)
             sharp_consensus == calculate_sharp_consensus(book_odds)
         IN  IF Len(book_odds) < 2 \/ sharp_consensus = Null THEN <<>>
             ELSE check_square_books(Market, book_odds, sharp_consensus,
                                     evlast.threshold, Len(book_odds)).results
\* The place of the i-th appended opportunity: behind every one with a
\* greater edge and behind the earlier ones with the same edge.
PlaceOf(appended_results, i) ==
    1 + Cardinality({j \in DOMAIN appended_results :
          \/ RGt(appended_results[j].ev_percentage, appended_results[i].ev_percentage)
          \/ /\ appended_results[j].ev_percentage = appended_results[i].ev_percentage
             /\ j < i})
FirstQuote(fight, book) ==
    CHOOSE i \in DOMAIN fight.odds_data :
        /\ fight.odds_data[i].book = book
        /\ \A j \in 1..(i - 1) : fight.odds_data[j].book # book

\* C21: the opportunities of one market, and of a batch, are returned by edge
\* descending, opportunities of equal edge in input order: market order,
\* then book order, then fighter 1 before fighter 2.
C21_SortedByEdgeStable ==
    ((FightAnalysed \/ BatchAnalysed) /\ evlast.outcome = "return") =>
        LET rs == evlast.results
        IN  /\ \A j, k \in DOMAIN rs :
                   j < k => RGe(rs[j].ev_percentage, rs[k].ev_percentage)
            /\ Len(rs) = Len(AppendOrder)
            /\ \A i \in DOMAIN AppendOrder : rs[PlaceOf(AppendOrder, i)] = AppendOrder[i]
            /\ FightAnalysed =>
                   \A j, k \in DOMAIN rs :
                       (j < k /\ rs[j].ev_percentage = rs[k].ev_percentage) =>
                           \/ FirstQuote(Market, rs[j].book) < FirstQuote(Market, rs[k].book)
                           \/ /\ rs[j].book = rs[k].book
                              /\ rs[j].fighter = Market.fighter1
                              /\ rs[k].fighter = Market.fighter2

C21_Witness ==
    /\ BatchAnalysed
    /\ Len(fights) = 2 /\ fights[1].fighter1 = "F3" /\ fights[2].fighter1 = "F1"
    /\ Len(evlast.results) = 2
    /\ evlast.results[1].ev_percentage = evlast.results[2].ev_percentage
    /\ evlast.results[1].fighter = "F4"
    /\ evlast.results[2].fighter = "F1"


\* C22: in a batch a market whose processing raises is skipped, and the
\* opportunities of the other markets are returned as if it were absent.
C22_BadMarketSkipped ==
    BatchAnalysed =>
        LET Sound(fight) == calculate_fight_evs(fight, "moderate").outcome = "return"
        IN  /\ evlast.outcome = "return"
            /\ evlast.results = analyze_all_fights(SelectSeq(fights, Sound)).results


\* The edge of an emitted opportunity before rounding: (consensus probability
\* - the book's vig-free probability) * 100 for its fighter.
ResultEdge(r) ==
    LET side == IF r.fighter = Market.fighter1 THEN 1 ELSE 2
        consensus == remove_vig(MeanSharpOdds(Market, Market.fighter1),
                                MeanSharpOdds(Market, Market.fighter2))
        square == remove_vig(BookQuote(Market.odds_data, r.book, Market.fighter1),
                             BookQuote(Market.odds_data, r.book, Market.fighter2))
    IN  RMul(RSub(consensus[side], square[side]), R(100))
ConfidenceOf(edge, sharp_book_count) ==
    LET magnitude == IF RLe(RMul(edge, R(15)), R(50)) THEN RMul(edge, R(15)) ELSE R(50)
        agreement == IF sharp_book_count * 10 <= 30 THEN R(sharp_book_count * 10) ELSE R(30)
        bonus == IF RGe(edge, R(3)) THEN R(20)
                 ELSE IF RGe(edge, R(2)) THEN R(15)
                 ELSE IF RGe(edge, <<3, 2>>) THEN R(10) ELSE R(0)
        score == RAdd(RAdd(magnitude, agreement), bonus)
    IN  IF RLe(score, R(100)) THEN score ELSE R(100)
Emitted == FightAnalysed /\ evlast.outcome = "return"

\* C23 (as stated): the confidence score of every emitted opportunity equals
\* min(min(edge*15, 50) + min(sharp_book_count*10, 30) + bonus, 100), with
\* the edge as computed or as emitted, and lies in [0,100].
C23_ConfidenceExact ==
    Emitted =>
        \A k \in DOMAIN evlast.results :
            LET r == evlast.results[k]
                n == Cardinality(SharpQuoted(Market))
            IN  /\ \/ r.confidence_score = ConfidenceOf(ResultEdge(r), n)
                   \/ r.confidence_score = ConfidenceOf(r.ev_percentage, n)
                /\ RLe(R(0), r.confidence_score) /\ RLe(r.confidence_score, R(100))

\* C23 (amended): the confidence score of every emitted opportunity equals
\* that formula on the unrounded edge, rounded to one decimal, and lies in
\* [0,100].
C23_ConfidenceRounded ==
    Emitted =>
        \A k \in DOMAIN evlast.results :
            LET r == evlast.results[k]
                n == Cardinality(SharpQuoted(Market))
            IN  /\ r.confidence_score = round(ConfidenceOf(ResultEdge(r), n), 1)
                /\ RLe(R(0), r.confidence_score) /\ RLe(r.confidence_score, R(100))

C23_Witness ==
    /\ Emitted
    /\ Len(evlast.results) = 1
    /\ SharpQuoted(Market) = {"Pinnacle", "BetOnline"}
    /\ evlast.results[1].confidence_score
           # ConfidenceOf(ResultEdge(evlast.results[1]), 2)
    /\ evlast.results[1].confidence_score
           # ConfidenceOf(evlast.results[1].ev_percentage, 2)
    /\ evlast.results[1].confidence_score
           = round(ConfidenceOf(ResultEdge(evlast.results[1]), 2), 1)


\* The first matching rule: strong, good, decent, small edge.
TierOf(confidence, edge) ==
    IF RGe(confidence, R(80)) /\ RGe(edge, <<5, 2>>) THEN "STRONG BET"
    ELSE IF RGe(confidence, R(60)) /\ RGe(edge, <<3, 2>>) THEN "GOOD BET"
    ELSE IF RGe(edge, R(1)) THEN "DECENT BET"
    ELSE "SMALL EDGE"

\* C24 (as stated): the tier of an opportunity follows from its confidence
\* and its edge by the first matching rule: confidence >= 80 and edge >= 2.5
\* strong, confidence >= 60 and edge >= 1.5 good, edge >= 1.0 decent, else
\* small edge.
C24_TierOfOpportunity ==
    Emitted =>
        \A k \in DOMAIN evlast.results :
            evlast.results[k].recommendation
                = TierOf(evlast.results[k].confidence_score,
                         evlast.results[k].ev_percentage)

\* C24 (amended): the tier follows by that rule from the unrounded edge and
\* the unrounded confidence score, not from the rounded values the
\* opportunity carries.
C24_TierOfUnrounded ==
    Emitted =>
        \A k \in DOMAIN evlast.results :
            LET edge == ResultEdge(evlast.results[k])
            IN  evlast.results[k].recommendation
                    = TierOf(ConfidenceOf(edge, Cardinality(SharpQuoted(Market))), edge)

C24_Witness ==
    /\ Emitted
    /\ Market = Borderline
    /\ Len(evlast.results) = 1
    /\ evlast.results[1].ev_percentage = <<233, 100>>
    /\ evlast.results[1].confidence_score = R(60)
    /\ RLt(ConfidenceOf(ResultEdge(evlast.results[1]), 1), R(60))
    /\ evlast.results[1].recommendation = "DECENT BET"


ExampleMarket(sharp, square) ==
    /\ sharp \in sharp_books /\ square \in square_books
    /\ CompleteBooks(Market) = {sharp, square}
    /\ BookQuote(Market.odds_data, sharp, Market.fighter1) = -150
    /\ BookQuote(Market.odds_data, sharp, Market.fighter2) = 130
    /\ BookQuote(Market.odds_data, square, Market.fighter1) = -110
    /\ BookQuote(Market.odds_data, square, Market.fighter2) = -110

\* C26: for that market at the moderate threshold exactly one opportunity is
\* emitted, for fighter 1, whose consensus probability (69/119) exceeds the
\* square book's vig-free probability (1/2).
C26_ExampleOneOpportunity ==
    \A sharp \in sharp_books, square \in square_books :
        (FightAnalysed /\ evlast.threshold = "moderate" /\ ExampleMarket(sharp, square)) =>
            /\ evlast.outcome = "return"
            /\ Len(evlast.results) = 1
            /\ evlast.results[1].fighter = Market.fighter1
            /\ evlast.results[1].book = square
            /\ ResultEdge(evlast.results[1]) = RMul(RSub(<<69, 119>>, <<1, 2>>), R(100))
            /\ evlast.results[1].ev_percentage = <<399, 50>>

C26_Witness ==
    /\ FightAnalysed /\ evlast.threshold = "moderate"
    /\ ExampleMarket("Pinnacle", "DraftKings")
    /\ QuotedBooks(Market) = {"Pinnacle", "DraftKings"}
    /\ Len(evlast.results) = 1
    /\ evlast.results[1].fighter = "F1"


\* Both fighters of the market are emitted at the book.
BothEmitted(book) ==
    \E j, k \in DOMAIN evlast.results :
        /\ evlast.results[j].book = book /\ evlast.results[k].book = book
        /\ evlast.results[j].fighter = Market.fighter1
        /\ evlast.results[k].fighter = Market.fighter2
ImpliedTotal(fight, book) ==
    RAdd(odds_to_implied_prob(BookQuote(fight.odds_data, book, fight.fighter1)),
         odds_to_implied_prob(BookQuote(fight.odds_data, book, fight.fighter2)))

\* C29 (as stated): at no square book of a market do both fighters yield an
\* opportunity.
C29_OneOutcomePerBook ==
    Emitted => \A book \in square_books : ~BothEmitted(book)

\* C29 (amended): at a square book whose two implied probabilities total at
\* least 1 at most one fighter yields an opportunity; both can only at a book
\* whose implied probabilities total less than 1.
C29_OneOutcomePerViggedBook ==
    Emitted =>
        \A book \in square_books \cap CompleteBooks(Market) :
            RGe(ImpliedTotal(Market, book), R(1)) => ~BothEmitted(book)

C29_Witness ==
    /\ Emitted
    /\ Len(evlast.results) = 3
    /\ BothEmitted("DraftKings")
    /\ RLt(ImpliedTotal(Market, "DraftKings"), R(1))
    /\ RGe(ImpliedTotal(Market, "FanDuel"), R(1))
    /\ ~BothEmitted("FanDuel")
    /\ \E k \in DOMAIN evlast.results : evlast.results[k].book = "FanDuel"


\* C27: a bet is pending exactly when its settlement amount and settlement
\* timestamp are both null, and the step that takes it from pending to won or
\* lost sets both.
C27_PendingIffUnsettled ==
    /\ [](\A i \in Rows :
              /\ placed_bets[i].status = "pending"
                     <=> (/\ placed_bets[i].result_amount = Null
                          /\ placed_bets[i].settled_date = Null)
              /\ placed_bets[i].result_amount = Null
                     <=> placed_bets[i].settled_date = Null)
    /\ [][\A i \in Rows :
              (placed_bets[i].status = "pending" /\ placed_bets'[i].status # "pending") =>
                  /\ placed_bets'[i].status \in {"won", "lost"}
                  /\ placed_bets[i].result_amount = Null
                  /\ placed_bets[i].settled_date = Null
                  /\ placed_bets'[i].result_amount # Null
                  /\ placed_bets'[i].settled_date # Null]_vars

C27_Witness ==
    /\ Rows = {1, 2}
    /\ placed_bets[1].status = "won"
    /\ placed_bets[1].result_amount # Null /\ placed_bets[1].settled_date = <<1>>
    /\ placed_bets[2].status = "pending"
    /\ placed_bets[2].result_amount = Null /\ placed_bets[2].settled_date = Null


\* The columns settle_bet's UPDATE does not name.
KeptColumns ==
    {"id", "fighter", "opponent", "book", "odds", "bet_amount", "unit_size",
     "ev_percentage", "confidence_score", "kelly_recommended", "placed_date",
     "fight_date"}

\* The step in which caller p's settle_bet runs from the row it read to its
\* commit; every other call, and the read half of settle_bet, is a step in
\* which no caller does so.
Settling(p) == pc[p] = "selected" /\ pc'[p] = "idle"

RecordsKept == \A i \in Rows : i \in DOMAIN placed_bets' /\ placed_bets'[i] = placed_bets[i]

\* C28: settle_bet changes only the status, settlement amount and settlement
\* timestamp of the record with the id it was given, leaving that record's
\* other fields and every other record as they were; settle_bet with an
\* unknown id, add_bet, get_betting_stats and get_recent_bets leave every
\* existing record unchanged.
C28_SettleFrame ==
    [][/\ \A p \in Procs :
              Settling(p) =>
                  /\ DOMAIN placed_bets' = Rows
                  /\ \A i \in Rows :
                         IF i = local[p].bet_id
                         THEN \A c \in KeptColumns : placed_bets'[i][c] = placed_bets[i][c]
                         ELSE placed_bets'[i] = placed_bets[i]
       /\ (\A p \in Procs : ~Settling(p)) => RecordsKept
       /\ last'.op \in {"add_bet", "get_betting_stats", "get_recent_bets"} =>
              (last' = last \/ RecordsKept)
       /\ (last'.op = "settle_bet" /\ last'.printed = "not found") =>
              UNCHANGED placed_bets]_vars

\* A settle of bet 1 has just been written next to the untouched bet 2.
C28_Witness ==
    /\ Rows = {1, 2}
    /\ last.op = "settle_bet" /\ last.bet_id = 1 /\ last.printed = "Bet lost"
    /\ placed_bets[1].status = "lost" /\ placed_bets[1].settled_date = now
    /\ placed_bets[1].placed_date = <<0>> /\ clock = 1
    /\ placed_bets[2].status = "pending"


\* The counts of a statistics dictionary add up, and its total is the number
\* of add_bet calls: seq, the AUTOINCREMENT sequence, advances by one per INSERT.
CountsAddUp(stats) ==
    /\ stats.total_bets = stats.won_bets + stats.lost_bets + stats.pending_bets
    /\ stats.total_bets = seq

\* C30: after any sequence of add_bet and settle_bet calls the statistics
\* satisfy total_bets = won_bets + lost_bets + pending_bets, total_bets is the
\* number of add_bet calls made, and each successful settle of a pending bet
\* lowers pending_bets by exactly one.
C30_CountsConsistent ==
    /\ [](StatsReported => CountsAddUp(last.stats))
    /\ [][(/\ Settling("c1")
           /\ placed_bets[local["c1"].bet_id].status = "pending"
           /\ last'.outcome = "return") =>
              betting_stats(placed_bets').pending_bets =
                  betting_stats(placed_bets).pending_bets - 1]_vars

\* Three bets were added, one was won and one lost, and the statistics were read.
C30_Witness ==
    /\ StatsReported
    /\ seq = 3
    /\ last.stats.total_bets = 3
    /\ last.stats.won_bets = 1 /\ last.stats.lost_bets = 1
    /\ last.stats.pending_bets = 1


====
